---- MODULE Spec2Model ----
(***************************************************************************)
(* Request pipeline and proxy core of gorouter: the negroni chain built by *)
(* NewProxy, the panic guard, the health check, the reporter, the writer   *)
(* wrapper, the proxy handler and the reverse proxy's director.            *)
(*                                                                         *)
(* Strings that the code parses or formats (request targets, header        *)
(* values) are sequences of byte values, so that escaping, unescaping and  *)
(* number formatting are computed as net/url and strconv compute them.     *)
(***************************************************************************)
EXTENDS Integers, Sequences, FiniteSets, TLC

\* Largest value the clock (time.Now, in unix-millis) takes.
MaxClock == 2
\* Longest request target drawn in SpecDirector.
MaxURILen == 5

\* The requests in flight. The chain of one request is strictly sequential
\* and requests share nothing but the health state.
Requests == {1}

VARIABLES
    config,     \* the fields of config.Config and the registry NewProxy reads
    chain,      \* the negroni chain: the handlers in the order they were added
    health,     \* the shared health.Health
    clock,      \* the latest reading of time.Now()
    frame,      \* per request: where control is in the chain
    trace,      \* per request: the handlers entered so far, in order
    reqInfo,    \* per request: the RequestInfo of the request's context
    rw,         \* per request: the response writer
    request,    \* per request: the inbound *http.Request
    outreq,     \* per request: the outgoing request of the reverse proxy
    metrics,    \* per request: the calls made on the metrics.ProxyReporter
    probe,      \* the exchange of the latest health check on the health listener
    clientCert, \* the predicates NewProxy hands to the client-cert handlers
    factory,    \* the round_tripper.FactoryImpl that NewProxy builds
    dispatch,   \* the attempts of the proxy round-tripper for one request
    fake        \* the fakes.RoundTripper and the goroutines calling it

vars == <<config, chain, health, clock, frame, trace, reqInfo, rw, request,
          outreq, metrics, probe, clientCert, factory, dispatch, fake>>

-----------------------------------------------------------------------------
(* Bytes and strings *)

Ch == [slash |-> 47, pct |-> 37, qm |-> 63, amp |-> 38, eq |-> 61,
       semi |-> 59, plus |-> 43, space |-> 32, comma |-> 44,
       a |-> 97, two |-> 50, F |-> 70, h |-> 104, zero |-> 48]

HasPrefix(s, p) == Len(s) >= Len(p) /\ SubSeq(s, 1, Len(p)) = p

\* index of the first occurrence of byte c in s, 0 when there is none
RECURSIVE IndexByteFrom(_, _, _)
IndexByteFrom(s, c, i) ==
    IF i > Len(s) THEN 0
    ELSE IF s[i] = c THEN i
    ELSE IndexByteFrom(s, c, i + 1)

IndexByte(s, c) == IndexByteFrom(s, c, 1)

\* strings.Cut(s, sep) for a one-byte separator
Cut(s, c) ==
    LET i == IndexByte(s, c)
    IN  IF i = 0 THEN [before |-> s, after |-> <<>>, found |-> FALSE]
        ELSE [before |-> SubSeq(s, 1, i - 1),
              after |-> SubSeq(s, i + 1, Len(s)), found |-> TRUE]

\* strings.Split(s, sep) for a one-byte separator: always at least one part
RECURSIVE Split(_, _)
Split(s, c) ==
    LET k == Cut(s, c)
    IN  IF k.found THEN <<k.before>> \o Split(k.after, c) ELSE <<s>>

\* byte-wise order of Go strings
RECURSIVE StrLess(_, _)
StrLess(s, t) ==
    IF t = <<>> THEN FALSE
    ELSE IF s = <<>> THEN TRUE
    ELSE IF s[1] # t[1] THEN s[1] < t[1]
    ELSE StrLess(Tail(s), Tail(t))

IsDigit(c) == 48 <= c /\ c <= 57
IsLower(c) == 97 <= c /\ c <= 122
IsUpper(c) == 65 <= c /\ c <= 90

\* net/url ishex, unhex
IsHex(c) == IsDigit(c) \/ (97 <= c /\ c <= 102) \/ (65 <= c /\ c <= 70)

UnHex(c) ==
    IF IsDigit(c) THEN c - 48
    ELSE IF 97 <= c /\ c <= 102 THEN c - 97 + 10
    ELSE c - 65 + 10

\* "0123456789ABCDEF"[n]
UpperHex(n) == IF n < 10 THEN 48 + n ELSE 65 + (n - 10)

\* strconv.FormatInt(n, 10) for n >= 0
RECURSIVE FormatInt(_)
FormatInt(n) ==
    IF n < 10 THEN <<48 + n>>
    ELSE Append(FormatInt(n \div 10), 48 + (n % 10))

-----------------------------------------------------------------------------
(* net/url: escaping, parsing of the request target, query values *)

\* net/url shouldEscape for the modes the director reaches
shouldEscape(c, mode) ==
    IF IsLower(c) \/ IsUpper(c) \/ IsDigit(c) THEN FALSE
    ELSE IF c \in {45, 95, 46, 126} THEN FALSE           \* - _ . ~
    ELSE IF c \in {36, 38, 43, 44, 47, 58, 59, 61, 63, 64} THEN  \* reserved
        CASE mode = "encodePath" -> c = Ch.qm
          [] mode = "encodePathSegment" ->
                c \in {Ch.slash, Ch.semi, Ch.comma, Ch.qm}
          [] mode = "encodeQueryComponent" -> TRUE
    ELSE TRUE

\* net/url escape
RECURSIVE escape(_, _)
escape(s, mode) ==
    IF s = <<>> THEN <<>>
    ELSE LET c == s[1]
             e == IF shouldEscape(c, mode)
                  THEN IF c = Ch.space /\ mode = "encodeQueryComponent"
                       THEN <<Ch.plus>>
                       ELSE <<Ch.pct, UpperHex(c \div 16), UpperHex(c % 16)>>
                  ELSE <<c>>
         IN  e \o escape(Tail(s), mode)

\* the first pass of net/url unescape: every % is followed by two hex digits
RECURSIVE ValidEscapes(_)
ValidEscapes(s) ==
    IF s = <<>> THEN TRUE
    ELSE IF s[1] = Ch.pct
         THEN /\ Len(s) >= 3
              /\ IsHex(s[2])
              /\ IsHex(s[3])
              /\ ValidEscapes(SubSeq(s, 4, Len(s)))
    ELSE ValidEscapes(Tail(s))

\* the second pass of net/url unescape, on a string that passed the first
RECURSIVE unescape(_, _)
unescape(s, mode) ==
    IF s = <<>> THEN <<>>
    ELSE IF s[1] = Ch.pct
         THEN <<UnHex(s[2]) * 16 + UnHex(s[3])>>
                  \o unescape(SubSeq(s, 4, Len(s)), mode)
    ELSE IF s[1] = Ch.plus /\ mode = "encodeQueryComponent"
         THEN <<Ch.space>> \o unescape(Tail(s), mode)
    ELSE <<s[1]>> \o unescape(Tail(s), mode)

PathEscape(s) == escape(s, "encodePathSegment")
QueryEscape(s) == escape(s, "encodeQueryComponent")

\* url.ParseRequestURI on an origin-form target (no scheme, no control byte),
\* as net/http's server applies it to the request line
ParseRequestURI(rawURL) ==
    LET forceQuery == /\ rawURL # <<>>
                      /\ rawURL[Len(rawURL)] = Ch.qm
                      /\ IndexByte(rawURL, Ch.qm) = Len(rawURL)
        k == Cut(rawURL, Ch.qm)
        rest == IF forceQuery THEN SubSeq(rawURL, 1, Len(rawURL) - 1)
                ELSE k.before
        rawQuery == IF forceQuery THEN <<>> ELSE k.after
        ok == /\ rawURL # <<>>
              /\ HasPrefix(rest, <<Ch.slash>>)
              /\ ValidEscapes(rest)
        path == IF ok THEN unescape(rest, "encodePath") ELSE <<>>
    IN  [ok |-> ok,
         URL |-> [Scheme |-> "", Host |-> <<>>, Opaque |-> <<>>,
                  Path |-> path,
                  RawPath |-> IF escape(path, "encodePath") = rest
                              THEN <<>> ELSE rest,
                  ForceQuery |-> forceQuery,
                  RawQuery |-> rawQuery]]

\* url.ParseQuery, as URL.Query uses it (errors dropped): the key/value
\* pairs in order of appearance
RECURSIVE parseQuery(_)
parseQuery(query) ==
    IF query = <<>> THEN <<>>
    ELSE LET k == Cut(query, Ch.amp)
             kv == Cut(k.before, Ch.eq)
         IN  IF IndexByte(k.before, Ch.semi) # 0 THEN parseQuery(k.after)
             ELSE IF k.before = <<>> THEN parseQuery(k.after)
             ELSE IF ~ValidEscapes(kv.before) \/ ~ValidEscapes(kv.after)
                  THEN parseQuery(k.after)
             ELSE <<[key |-> unescape(kv.before, "encodeQueryComponent"),
                     value |-> unescape(kv.after, "encodeQueryComponent")]>>
                      \o parseQuery(k.after)

\* len(url.Values): the number of keys
ValuesLen(values) == Cardinality({values[i].key : i \in DOMAIN values})

RECURSIVE EncodeValuesOf(_, _, _)
EncodeValuesOf(values, key, buf) ==
    IF values = <<>> THEN buf
    ELSE IF values[1].key # key THEN EncodeValuesOf(Tail(values), key, buf)
    ELSE EncodeValuesOf(Tail(values), key,
            (IF buf = <<>> THEN <<>> ELSE Append(buf, Ch.amp))
                \o QueryEscape(key) \o <<Ch.eq>> \o QueryEscape(values[1].value))

RECURSIVE EncodeKeys(_, _, _)
EncodeKeys(values, keys, buf) ==
    IF keys = {} THEN buf
    ELSE LET k == CHOOSE x \in keys : \A y \in keys : x = y \/ StrLess(x, y)
         IN  EncodeKeys(values, keys \ {k}, EncodeValuesOf(values, k, buf))

\* url.Values.Encode: sorted by key, the values of one key in order
Encode(values) ==
    EncodeKeys(values, {values[i].key : i \in DOMAIN values}, <<>>)

\* strings.TrimSuffix(s, "/")
TrimSuffixSlash(s) ==
    IF s # <<>> /\ s[Len(s)] = Ch.slash THEN SubSeq(s, 1, Len(s) - 1) ELSE s

RECURSIVE EscapeParts(_)
EscapeParts(parts) ==
    IF parts = <<>> THEN <<>>
    ELSE PathEscape(parts[1]) \o <<Ch.slash>> \o EscapeParts(Tail(parts))

escapePathAndPreserveSlashes_NoTrim(unescaped) ==
    EscapeParts(Split(unescaped, Ch.slash))

escapePathAndPreserveSlashes(unescaped) ==
    TrimSuffixSlash(EscapeParts(Split(unescaped, Ch.slash)))

-----------------------------------------------------------------------------
(* The director *)

XRequestStart == "X-Request-Start"
CfAppInstance == "X-Cf-App-Instance"

\* http.Header.Del
HeaderDel(header, key) == [k \in DOMAIN header \ {key} |-> header[k]]

\* http.Header.Set
HeaderSet(header, key, value) ==
    [k \in DOMAIN header \cup {key} |-> IF k = key THEN value ELSE header[k]]

\* http.Header.Get: "" when the key is absent
HeaderGet(header, key) == IF key \in DOMAIN header THEN header[key] ELSE <<>>

setRequestXRequestStart_IfEmpty(req, now) ==
    IF HeaderGet(req.Header, XRequestStart) = <<>>
    THEN [req EXCEPT !.Header = HeaderSet(@, XRequestStart, FormatInt(now))]
    ELSE req

setRequestXRequestStart(req, now) ==
    IF XRequestStart \notin DOMAIN req.Header
    THEN [req EXCEPT !.Header = HeaderSet(@, XRequestStart, FormatInt(now))]
    ELSE req

setupProxyRequest_KeepRawQuery(target, now) ==
    LET t1 == [target EXCEPT !.URL.Scheme = "http",
                             !.URL.Host = target.Host,
                             !.URL.ForceQuery = FALSE,
                             !.URL.Opaque = target.RequestURI]
        query == parseQuery(target.URL.RawQuery)
        t2 == IF HasPrefix(target.RequestURI, <<Ch.slash, Ch.slash>>)
              THEN LET path == escapePathAndPreserveSlashes(target.URL.Path)
                       opaque == <<Ch.slash, Ch.slash>> \o target.Host \o path
                   IN  [t1 EXCEPT !.URL.Opaque =
                            IF ValuesLen(query) > 0
                            THEN opaque \o <<Ch.qm>> \o Encode(query)
                            ELSE opaque]
              ELSE t1
        t4 == setRequestXRequestStart(t2, now)
    IN  [t4 EXCEPT !.Header = HeaderDel(@, CfAppInstance)]

setupProxyRequest_KeepAppInstance(target, now) ==
    LET t1 == [target EXCEPT !.URL.Scheme = "http",
                             !.URL.Host = target.Host,
                             !.URL.ForceQuery = FALSE,
                             !.URL.Opaque = target.RequestURI]
        query == parseQuery(target.URL.RawQuery)
        t2 == IF HasPrefix(target.RequestURI, <<Ch.slash, Ch.slash>>)
              THEN LET path == escapePathAndPreserveSlashes(target.URL.Path)
                       opaque == <<Ch.slash, Ch.slash>> \o target.Host \o path
                   IN  [t1 EXCEPT !.URL.Opaque =
                            IF ValuesLen(query) > 0
                            THEN opaque \o <<Ch.qm>> \o Encode(query)
                            ELSE opaque]
              ELSE t1
        t3 == [t2 EXCEPT !.URL.RawQuery = <<>>]
    IN  setRequestXRequestStart(t3, now)

\* setupProxyRequest once the RequestInfo was found; now is the reading of
\* time.Now() that setRequestXRequestStart takes when the header is absent
setupProxyRequest(target, now) ==
    LET t1 == [target EXCEPT !.URL.Scheme = "http",
                             !.URL.Host = target.Host,
                             !.URL.ForceQuery = FALSE,
                             !.URL.Opaque = target.RequestURI]
        query == parseQuery(target.URL.RawQuery)
        t2 == IF HasPrefix(target.RequestURI, <<Ch.slash, Ch.slash>>)
              THEN LET path == escapePathAndPreserveSlashes(target.URL.Path)
                       opaque == <<Ch.slash, Ch.slash>> \o target.Host \o path
                   IN  [t1 EXCEPT !.URL.Opaque =
                            IF ValuesLen(query) > 0
                            THEN opaque \o <<Ch.qm>> \o Encode(query)
                            ELSE opaque]
              ELSE t1
        t3 == [t2 EXCEPT !.URL.RawQuery = <<>>]
        t4 == setRequestXRequestStart(t3, now)
    IN  [t4 EXCEPT !.Header = HeaderDel(@, CfAppInstance)]


-----------------------------------------------------------------------------
(* The chain *)

Configs == [SendHttpStartStopServerEvent : BOOLEAN,
            promRegistry : BOOLEAN,
            PerAppPrometheusHttpMetricsReporting : BOOLEAN]

NewProxy_StartStopAfterProm(cfg) ==
    LET n0 == <<"PanicGuard", "RequestInfo", "WriterWrap", "Zipkin", "W3C",
                "VCAPRequestID">>
        n1 == IF cfg.promRegistry /\ cfg.PerAppPrometheusHttpMetricsReporting
              THEN Append(n0, "PromLatency") ELSE n0
        n2 == IF cfg.SendHttpStartStopServerEvent
              THEN Append(n1, "HTTPStartStop") ELSE n1
    IN  n2 \o <<"AccessLog", "QueryParam", "Reporter", "HTTPRewrite",
                "ProxyHealthcheck", "ProtocolGate", "Lookup", "MaxRequestSize",
                "ClientCert", "HopByHop", "XForwardedProto",
                "RouteServiceDetour", "ProxyRequestPrep", "ReverseProxy">>

NewProxy_WriterWrapBeforeRequestInfo(cfg) ==
    LET n0 == <<"PanicGuard", "WriterWrap", "RequestInfo", "Zipkin", "W3C",
                "VCAPRequestID">>
        n1 == IF cfg.SendHttpStartStopServerEvent
              THEN Append(n0, "HTTPStartStop") ELSE n0
        n2 == IF cfg.promRegistry
              THEN IF cfg.PerAppPrometheusHttpMetricsReporting
                   THEN Append(n1, "PromLatency") ELSE n1
              ELSE n1
    IN  n2 \o <<"AccessLog", "QueryParam", "Reporter", "HTTPRewrite",
                "ProxyHealthcheck", "ProtocolGate", "Lookup", "MaxRequestSize",
                "ClientCert", "HopByHop", "XForwardedProto",
                "RouteServiceDetour", "ProxyRequestPrep", "ReverseProxy">>

\* The handlers NewProxy adds with n.Use / n.UseHandler, in the order it adds
\* them, named as the canonical order names them:
\*   PanicGuard = NewPanicCheck, WriterWrap = NewProxyWriter,
\*   ProtocolGate = NewProtocolCheck, RouteServiceDetour = NewRouteService,
\*   ProxyRequestPrep = the proxy itself (n.Use(p)), ReverseProxy = rproxy.
NewProxy(cfg) ==
    LET n0 == <<"PanicGuard", "RequestInfo", "WriterWrap", "Zipkin", "W3C",
                "VCAPRequestID">>
        n1 == IF cfg.SendHttpStartStopServerEvent
              THEN Append(n0, "HTTPStartStop") ELSE n0
        n2 == IF cfg.promRegistry
              THEN IF cfg.PerAppPrometheusHttpMetricsReporting
                   THEN Append(n1, "PromLatency") ELSE n1
              ELSE n1
    IN  n2 \o <<"AccessLog", "QueryParam", "Reporter", "HTTPRewrite",
                "ProxyHealthcheck", "ProtocolGate", "Lookup", "MaxRequestSize",
                "ClientCert", "HopByHop", "XForwardedProto",
                "RouteServiceDetour", "ProxyRequestPrep", "ReverseProxy">>

\* Chains that use the exported handlers without the RequestInfo handler in
\* front, as their own tests do: the request then carries whatever context
\* and writer the caller gave it.
HarnessChains ==
    { <<"PanicGuard", "WriterWrap", "Reporter", "ProxyRequestPrep", "ReverseProxy">>,
      <<"PanicGuard", "Reporter", "ProxyRequestPrep", "ReverseProxy">>,
      <<"PanicGuard", "ProxyRequestPrep", "ReverseProxy">> }

\* Handlers of the chain whose code is outside this model's sources and that
\* hand the request on
PassThrough ==
    {"Zipkin", "W3C", "VCAPRequestID", "HTTPStartStop", "PromLatency",
     "AccessLog", "QueryParam", "HTTPRewrite", "ClientCert", "HopByHop",
     "XForwardedProto"}

\* Handlers that may resolve the request locally, with the status they write
RejectStatus ==
    [ProtocolGate |-> {400}, Lookup |-> {404, 503}, MaxRequestSize |-> {413},
     RouteServiceDetour |-> {400}]

Gates == DOMAIN RejectStatus

-----------------------------------------------------------------------------
(* Values *)

Healthy == "Healthy"
Degraded == "Degraded"
HealthStates == {"Initializing", Healthy, Degraded}

NoPanic == "nil"
ErrAbortHandler == "http.ErrAbortHandler"

\* new(RequestInfo): every field zero
ZeroRequestInfo ==
    [attached |-> FALSE, RoutePool |-> FALSE, RouteEndpoint |-> FALSE,
     AppRequestStartedAt |-> 0, AppRequestFinishedAt |-> 0,
     ProxyResponseWriter |-> FALSE, BackendReqHeaders |-> FALSE]

NewRequestInfo == [ZeroRequestInfo EXCEPT !.attached = TRUE]

ZeroMetrics ==
    [MissingContentLengthHeader |-> 0, RoutingResponse |-> 0,
     RoutingResponseLatency |-> 0]

Host == <<Ch.h>>

\* Inbound header maps over the keys the handlers read
HeaderValues ==
    [ContentLength : {<<>>, <<<<>>>>, <<<<49>>>>},
     XRequestStart : {<<>>, <<<<>>>>, <<<<Ch.zero>>>>},
     CfAppInstance : {<<>>, <<<<Ch.a>>>>}]

HeaderOf(v) ==
    LET keys == (IF v.ContentLength # <<>> THEN {"Content-Length"} ELSE {})
                \cup (IF v.XRequestStart # <<>> THEN {XRequestStart} ELSE {})
                \cup (IF v.CfAppInstance # <<>> THEN {CfAppInstance} ELSE {})
    IN  [k \in keys |->
            IF k = "Content-Length" THEN v.ContentLength[1]
            ELSE IF k = XRequestStart THEN v.XRequestStart[1]
            ELSE v.CfAppInstance[1]]

InboundHeaders == {HeaderOf(v) : v \in HeaderValues}

\* Request targets of the pipeline runs: /a?a  //a?a
SampleURIs ==
    { <<Ch.slash, Ch.a, Ch.qm, Ch.a>>,
      <<Ch.slash, Ch.slash, Ch.a, Ch.qm, Ch.a>> }

Alphabet == {Ch.slash, Ch.a, Ch.pct, Ch.two, Ch.F, Ch.qm, Ch.eq, Ch.amp}

\* Every target up to MaxURILen bytes that the server accepts
RequestURIs ==
    {u \in UNION {[1..n -> Alphabet] : n \in 1..MaxURILen} :
        ParseRequestURI(u).ok}

\* The request as net/http's server hands it to the chain
InboundRequest(uri, header) ==
    [Close |-> FALSE, Host |-> Host, RequestURI |-> uri, Header |-> header,
     URL |-> ParseRequestURI(uri).URL]

NewResponseWriter(wrapped) ==
    [wrapped |-> wrapped, written |-> <<>>, body |-> <<>>]

\* ResponseWriter.WriteHeader: the calls in order; the first is the status sent
WriteHeader(w, code) == [w EXCEPT !.written = Append(@, code)]

Write(w, chunk) == [w EXCEPT !.body = Append(@, chunk)]

-----------------------------------------------------------------------------
(* Control *)

At(r, pc, handler) ==
    /\ frame[r].pc = pc
    /\ chain[frame[r].idx] = handler

Enter(r) == trace' = [trace EXCEPT ![r] = Append(@, chain[frame[r].idx])]

\* next(rw, r)
CallNext(r) ==
    frame' = [frame EXCEPT ![r] = [pc |-> "call", idx |-> @.idx + 1, rec |-> NoPanic]]

\* Handlers with code after next(rw, r), or a deferred function
PostHandlers == {"PanicGuard", "Reporter", "ProxyRequestPrep"}

Max(S) == CHOOSE x \in S : \A y \in S : y <= x

\* The handler at i returns: control is back in the nearest handler upstream
\* that has code left to run, or in the server
ReturnFrame(i) ==
    LET j == Max({0} \cup {k \in 1..(i - 1) : chain[k] \in PostHandlers})
    IN  IF j = 0 THEN [pc |-> "done", idx |-> 0, rec |-> NoPanic]
        ELSE [pc |-> "post", idx |-> j, rec |-> NoPanic]

\* The handler at i panics with v: the stack unwinds to the nearest deferred
\* recover upstream, or to the server
PanicFrame(i, v) ==
    LET g == Max({0} \cup {k \in 1..(i - 1) : chain[k] = "PanicGuard"})
    IN  IF g = 0 THEN [pc |-> "escaped", idx |-> 0, rec |-> v]
        ELSE [pc |-> "panic", idx |-> g, rec |-> v]

Return(r) == frame' = [frame EXCEPT ![r] = ReturnFrame(frame[r].idx)]

Panic(r, v) == frame' = [frame EXCEPT ![r] = PanicFrame(frame[r].idx, v)]


-----------------------------------------------------------------------------
(* handlers.panicCheck *)

PanicCheckServeHTTP(r) ==
    /\ At(r, "call", "PanicGuard")
    /\ Enter(r)
    /\ CallNext(r)
    /\ UNCHANGED <<fake, clientCert, factory, dispatch, config, chain, health, clock, reqInfo, rw, request, outreq,
                   metrics, probe>>

PanicCheckReturn_RestoresHealth(r) ==
    /\ At(r, "post", "PanicGuard")
    /\ health' = Healthy
    /\ Return(r)
    /\ UNCHANGED <<fake, clientCert, factory, dispatch, config, chain, clock, trace, reqInfo, rw, request,
                   outreq, metrics, probe>>

\* next returned: the deferred function finds recover() = nil
PanicCheckReturn(r) ==
    /\ At(r, "post", "PanicGuard")
    /\ Return(r)
    /\ UNCHANGED <<fake, clientCert, factory, dispatch, config, chain, health, clock, trace, reqInfo, rw, request,
                   outreq, metrics, probe>>

PanicCheckRecover_NoDegrade(r) ==
    /\ At(r, "panic", "PanicGuard")
    /\ IF frame[r].rec = ErrAbortHandler
       THEN /\ Panic(r, ErrAbortHandler)
            /\ UNCHANGED <<health, rw, request>>
       ELSE /\ UNCHANGED health
            /\ rw' = [rw EXCEPT ![r] = WriteHeader(@, 503)]
            /\ request' = [request EXCEPT ![r].Close = TRUE]
            /\ Return(r)
    /\ UNCHANGED <<fake, clientCert, factory, dispatch, config, chain, clock, trace, reqInfo, outreq, metrics, probe>>

PanicCheckRecover_AbortRecovered(r) ==
    /\ At(r, "panic", "PanicGuard")
    /\ health' = Degraded
    /\ rw' = [rw EXCEPT ![r] = WriteHeader(@, 503)]
    /\ request' = [request EXCEPT ![r].Close = TRUE]
    /\ Return(r)
    /\ UNCHANGED <<fake, clientCert, factory, dispatch, config, chain, clock, trace, reqInfo, outreq, metrics, probe>>

PanicCheckRecover_RepanicAfter503(r) ==
    /\ At(r, "panic", "PanicGuard")
    /\ IF frame[r].rec = ErrAbortHandler
       THEN /\ Panic(r, ErrAbortHandler)
            /\ UNCHANGED <<health, rw, request>>
       ELSE /\ health' = Degraded
            /\ rw' = [rw EXCEPT ![r] = WriteHeader(@, 503)]
            /\ request' = [request EXCEPT ![r].Close = TRUE]
            /\ Panic(r, frame[r].rec)
    /\ UNCHANGED <<fake, clientCert, factory, dispatch, config, chain, clock, trace, reqInfo, outreq, metrics, probe>>

PanicCheckRecover_CallsNextAgain(r) ==
    /\ At(r, "panic", "PanicGuard")
    /\ IF frame[r].rec = ErrAbortHandler
       THEN /\ Panic(r, ErrAbortHandler)
            /\ UNCHANGED <<health, rw, request>>
       ELSE /\ health' = Degraded
            /\ rw' = [rw EXCEPT ![r] = WriteHeader(@, 503)]
            /\ request' = [request EXCEPT ![r].Close = TRUE]
            /\ CallNext(r)
    /\ UNCHANGED <<fake, clientCert, factory, dispatch, config, chain, clock, trace, reqInfo, outreq, metrics, probe>>

\* next panicked: the deferred function recovers frame[r].rec
PanicCheckRecover(r) ==
    /\ At(r, "panic", "PanicGuard")
    /\ IF frame[r].rec = ErrAbortHandler
       THEN /\ Panic(r, ErrAbortHandler)
            /\ UNCHANGED <<health, rw, request>>
       ELSE /\ health' = Degraded
            /\ rw' = [rw EXCEPT ![r] = WriteHeader(@, 503)]
            /\ request' = [request EXCEPT ![r].Close = TRUE]
            /\ Return(r)
    /\ UNCHANGED <<fake, clientCert, factory, dispatch, config, chain, clock, trace, reqInfo, outreq, metrics, probe>>

-----------------------------------------------------------------------------
(* handlers.proxyWriterHandler *)

ProxyWriterServeHTTP(r) ==
    /\ At(r, "call", "WriterWrap")
    /\ Enter(r)
    /\ IF ~reqInfo[r].attached
       THEN /\ Panic(r, "request-info-err")
            /\ UNCHANGED <<reqInfo, rw>>
       ELSE /\ rw' = [rw EXCEPT ![r].wrapped = TRUE]
            /\ reqInfo' = [reqInfo EXCEPT ![r].ProxyResponseWriter = TRUE]
            /\ CallNext(r)
    /\ UNCHANGED <<fake, clientCert, factory, dispatch, config, chain, health, clock, request, outreq, metrics, probe>>

-----------------------------------------------------------------------------
(* handlers.reporterHandler *)

ReporterServeHTTP_LogAndGoOn(r) ==
    /\ At(r, "call", "Reporter")
    /\ Enter(r)
    /\ metrics' = IF HeaderGet(request[r].Header, "Content-Length") = <<>>
                  THEN [metrics EXCEPT ![r].MissingContentLengthHeader = @ + 1]
                  ELSE metrics
    /\ CallNext(r)
    /\ UNCHANGED <<fake, clientCert, factory, dispatch, config, chain, health, clock, reqInfo, rw, request, outreq, probe>>

ReporterServeHTTP_AbsentKeyOnly(r) ==
    /\ At(r, "call", "Reporter")
    /\ Enter(r)
    /\ IF ~reqInfo[r].attached
       THEN /\ Panic(r, "request-info-err")
            /\ UNCHANGED metrics
       ELSE /\ metrics' =
                IF "Content-Length" \notin DOMAIN request[r].Header
                THEN [metrics EXCEPT ![r].MissingContentLengthHeader = @ + 1]
                ELSE metrics
            /\ CallNext(r)
    /\ UNCHANGED <<fake, clientCert, factory, dispatch, config, chain, health, clock, reqInfo, rw, request, outreq, probe>>

\* up to next(rw, r)
ReporterServeHTTP(r) ==
    /\ At(r, "call", "Reporter")
    /\ Enter(r)
    /\ IF ~reqInfo[r].attached
       THEN /\ Panic(r, "request-info-err")
            /\ UNCHANGED metrics
       ELSE /\ metrics' =
                IF HeaderGet(request[r].Header, "Content-Length") = <<>>
                THEN [metrics EXCEPT ![r].MissingContentLengthHeader = @ + 1]
                ELSE metrics
            /\ CallNext(r)
    /\ UNCHANGED <<fake, clientCert, factory, dispatch, config, chain, health, clock, reqInfo, rw, request, outreq, probe>>

ReporterAfterNext_NoEndpointCheck(r) ==
    /\ At(r, "post", "Reporter")
    /\ IF ~rw[r].wrapped
       THEN /\ Panic(r, "runtime-error")
            /\ UNCHANGED metrics
       ELSE /\ metrics' =
                [metrics EXCEPT
                    ![r].RoutingResponse = @ + 1,
                    ![r].RoutingResponseLatency =
                        IF reqInfo[r].AppRequestFinishedAt = 0 THEN @ ELSE @ + 1]
            /\ Return(r)
    /\ UNCHANGED <<fake, clientCert, factory, dispatch, config, chain, health, clock, trace, reqInfo, rw, request,
                   outreq, probe>>

\* after next(rw, r) returned
ReporterAfterNext(r) ==
    /\ At(r, "post", "Reporter")
    /\ IF ~reqInfo[r].RouteEndpoint
       THEN /\ Return(r)
            /\ UNCHANGED metrics
       ELSE IF ~rw[r].wrapped
       THEN /\ Panic(r, "runtime-error")
            /\ UNCHANGED metrics
       ELSE /\ metrics' =
                [metrics EXCEPT
                    ![r].RoutingResponse = @ + 1,
                    ![r].RoutingResponseLatency =
                        IF reqInfo[r].AppRequestFinishedAt = 0 THEN @ ELSE @ + 1]
            /\ Return(r)
    /\ UNCHANGED <<fake, clientCert, factory, dispatch, config, chain, health, clock, trace, reqInfo, rw, request,
                   outreq, probe>>

-----------------------------------------------------------------------------
(* proxy.ServeHTTP *)

\* up to next(responseWriter, request); fullDuplexErr: full duplex is
\* configured, the request is HTTP/1 and EnableFullDuplex failed
ProxyServeHTTP(r) ==
    /\ At(r, "call", "ProxyRequestPrep")
    /\ Enter(r)
    /\ \E fullDuplexErr \in BOOLEAN, now \in clock..MaxClock :
        IF ~rw[r].wrapped
        THEN Panic(r, "runtime-error") /\ UNCHANGED <<reqInfo, clock>>
        ELSE IF fullDuplexErr
        THEN Panic(r, "enable-full-duplex-err") /\ UNCHANGED <<reqInfo, clock>>
        ELSE IF ~reqInfo[r].attached
        THEN Panic(r, "request-info-err") /\ UNCHANGED <<reqInfo, clock>>
        ELSE IF ~reqInfo[r].RoutePool
        THEN Panic(r, "request-info-err") /\ UNCHANGED <<reqInfo, clock>>
        ELSE /\ reqInfo' = [reqInfo EXCEPT ![r].AppRequestStartedAt = now]
             /\ clock' = now
             /\ CallNext(r)
    /\ UNCHANGED <<fake, clientCert, factory, dispatch, config, chain, health, rw, request, outreq, metrics, probe>>

\* after next(responseWriter, request) returned
ProxyAfterNext(r) ==
    /\ At(r, "post", "ProxyRequestPrep")
    /\ \E now \in clock..MaxClock :
        /\ reqInfo' = [reqInfo EXCEPT ![r].AppRequestFinishedAt = now]
        /\ clock' = now
    /\ Return(r)
    /\ UNCHANGED <<fake, clientCert, factory, dispatch, config, chain, health, trace, rw, request, outreq, metrics, probe>>

-----------------------------------------------------------------------------
(* httputil.ReverseProxy with the director and the proxy round-tripper *)

\* req.Clone: the outgoing request starts as a copy of the inbound one
Clone(req) ==
    [Host |-> req.Host, RequestURI |-> req.RequestURI, Header |-> req.Header,
     URL |-> req.URL]

\* ReverseProxy.ServeHTTP up to the round trip: clone, then the director
ReverseProxyDirector(r) ==
    /\ At(r, "call", "ReverseProxy")
    /\ Enter(r)
    /\ IF ~reqInfo[r].attached
       THEN /\ Panic(r, "request-info-err")
            /\ UNCHANGED <<reqInfo, outreq, clock>>
       ELSE \E now \in clock..MaxClock :
            /\ outreq' = [outreq EXCEPT
                            ![r] = <<setupProxyRequest(Clone(request[r]), now)>>]
            /\ reqInfo' = [reqInfo EXCEPT ![r].BackendReqHeaders = TRUE]
            /\ clock' = IF XRequestStart \in DOMAIN request[r].Header
                        THEN clock ELSE now
            /\ frame' = [frame EXCEPT ![r].pc = "roundtrip"]
    /\ UNCHANGED <<fake, clientCert, factory, dispatch, config, chain, health, rw, request, metrics, probe>>

\* What the round-tripper and the copy of the response can come to: an
\* endpoint answered, every attempt failed, or no endpoint was eligible
RoundTripOutcomes ==
    { [endpoint |-> TRUE, status |-> 200], [endpoint |-> TRUE, status |-> 502],
      [endpoint |-> FALSE, status |-> 503] }

\* The round trip and the response; abort: the client went away while the
\* body was copied, and ReverseProxy panics with http.ErrAbortHandler
ReverseProxyRoundTrip(r) ==
    /\ At(r, "roundtrip", "ReverseProxy")
    /\ \E o \in RoundTripOutcomes :
        \E abort \in (IF o.status = 200 THEN BOOLEAN ELSE {FALSE}) :
            /\ reqInfo' = [reqInfo EXCEPT ![r].RouteEndpoint = o.endpoint]
            /\ rw' = [rw EXCEPT ![r] = WriteHeader(@, o.status)]
            /\ IF abort THEN Panic(r, ErrAbortHandler) ELSE Return(r)
    /\ outreq' = [outreq EXCEPT ![r] = <<>>]
    /\ UNCHANGED <<fake, clientCert, factory, dispatch, config, chain, health, clock, trace, request, metrics, probe>>

-----------------------------------------------------------------------------
(* handlers.healthcheck: the health listener *)

healthcheckServeHTTP_OnlyDegraded(h) ==
    LET w0 == [healthRead |-> h, Close |-> FALSE, written |-> <<>>,
               body |-> <<>>,
               Header |-> [CacheControl |-> "private, max-age=0", Expires |-> "0"]]
    IN  IF h = Degraded
        THEN [w0 EXCEPT !.written = <<503>>, !.Close = TRUE]
        ELSE [w0 EXCEPT !.written = <<200>>, !.body = <<"ok\n">>, !.Close = TRUE]

healthcheckServeHTTP_KeepAliveOn503(h) ==
    LET w0 == [healthRead |-> h, Close |-> FALSE, written |-> <<>>,
               body |-> <<>>,
               Header |-> [CacheControl |-> "private, max-age=0", Expires |-> "0"]]
    IN  IF h # Healthy
        THEN [w0 EXCEPT !.written = <<503>>]
        ELSE [w0 EXCEPT !.written = <<200>>, !.body = <<"ok\n">>, !.Close = TRUE]

\* The exchange of one health check that reads health state h
healthcheckServeHTTP(h) ==
    LET w0 == [healthRead |-> h, Close |-> FALSE, written |-> <<>>,
               body |-> <<>>,
               Header |-> [CacheControl |-> "private, max-age=0", Expires |-> "0"]]
    IN  IF h # Healthy
        THEN [w0 EXCEPT !.written = <<503>>, !.Close = TRUE]
        ELSE [w0 EXCEPT !.written = <<200>>, !.body = <<"ok\n">>, !.Close = TRUE]

HealthcheckServeHTTP ==
    /\ probe' = <<healthcheckServeHTTP(health)>>
    /\ UNCHANGED <<fake, clientCert, factory, dispatch, config, chain, health, clock, frame, trace, reqInfo, rw,
                   request, outreq, metrics>>

-----------------------------------------------------------------------------
(* Handlers of the chain whose code is outside the sources *)

\* handlers.NewRequestInfo: attaches a new RequestInfo to the request
RequestInfoServeHTTP(r) ==
    /\ At(r, "call", "RequestInfo")
    /\ Enter(r)
    /\ reqInfo' = [reqInfo EXCEPT ![r] = NewRequestInfo]
    /\ CallNext(r)
    /\ UNCHANGED <<fake, clientCert, factory, dispatch, config, chain, health, clock, rw, request, outreq, metrics, probe>>

PassThroughServeHTTP(r) ==
    /\ frame[r].pc = "call"
    /\ chain[frame[r].idx] \in PassThrough
    /\ Enter(r)
    /\ CallNext(r)
    /\ UNCHANGED <<fake, clientCert, factory, dispatch, config, chain, health, clock, reqInfo, rw, request, outreq,
                   metrics, probe>>

\* The health probe of the platform through the proxy port
ProxyHealthcheckServeHTTP(r) ==
    /\ At(r, "call", "ProxyHealthcheck")
    /\ Enter(r)
    /\ \E isHealthCheck \in BOOLEAN :
        IF ~isHealthCheck
        THEN CallNext(r) /\ UNCHANGED <<rw, request>>
        ELSE /\ rw' = [rw EXCEPT ![r] =
                        IF health # Healthy THEN WriteHeader(@, 503)
                        ELSE Write(WriteHeader(@, 200), "ok\n")]
             /\ request' = [request EXCEPT ![r].Close = TRUE]
             /\ Return(r)
    /\ UNCHANGED <<fake, clientCert, factory, dispatch, config, chain, health, clock, reqInfo, outreq, metrics, probe>>

\* Protocol gate, lookup, size cap, route-service detour: write a terminal
\* status and return, or go on (the lookup with the pool attached)
GateServeHTTP(r) ==
    /\ frame[r].pc = "call"
    /\ chain[frame[r].idx] \in Gates
    /\ Enter(r)
    /\ \/ \E status \in RejectStatus[chain[frame[r].idx]] :
            /\ rw' = [rw EXCEPT ![r] = WriteHeader(@, status)]
            /\ Return(r)
            /\ UNCHANGED reqInfo
       \/ /\ reqInfo' = IF chain[frame[r].idx] = "Lookup"
                        THEN [reqInfo EXCEPT ![r].RoutePool = TRUE]
                        ELSE reqInfo
          /\ CallNext(r)
          /\ UNCHANGED rw
    /\ UNCHANGED <<fake, clientCert, factory, dispatch, config, chain, health, clock, request, outreq, metrics, probe>>

\* Any of them may panic, with the client-abort sentinel or another value
HandlerPanics(r) ==
    /\ frame[r].pc = "call"
    /\ chain[frame[r].idx] \in
            PassThrough \cup Gates \cup {"RequestInfo", "ProxyHealthcheck"}
    /\ Enter(r)
    /\ \E v \in {ErrAbortHandler, "handler-panic"} : Panic(r, v)
    /\ UNCHANGED <<fake, clientCert, factory, dispatch, config, chain, health, clock, reqInfo, rw, request, outreq,
                   metrics, probe>>

-----------------------------------------------------------------------------
(* Specifications *)

NoOptions ==
    [SendHttpStartStopServerEvent |-> FALSE, promRegistry |-> FALSE,
     PerAppPrometheusHttpMetricsReporting |-> FALSE]

\* Context and writer a caller of a harness chain may hand in
HarnessContexts ==
    {ZeroRequestInfo, NewRequestInfo, [NewRequestInfo EXCEPT !.RoutePool = TRUE]}

Init ==
    /\ config \in Configs
    /\ chain \in {NewProxy(config)}
                    \cup (IF config = NoOptions THEN HarnessChains ELSE {})
    /\ health \in HealthStates
    /\ clock = 1
    /\ frame = [r \in Requests |-> [pc |-> "call", idx |-> 1, rec |-> NoPanic]]
    /\ trace = [r \in Requests |-> <<>>]
    /\ reqInfo \in [Requests -> IF chain \in HarnessChains
                                THEN HarnessContexts ELSE {ZeroRequestInfo}]
    /\ rw \in [Requests -> {NewResponseWriter(w) :
                    w \in IF chain \in HarnessChains THEN BOOLEAN ELSE {FALSE}}]
    /\ request \in [Requests -> {InboundRequest(u, h) :
                        u \in SampleURIs, h \in InboundHeaders}]
    /\ outreq = [r \in Requests |-> <<>>]
    /\ metrics = [r \in Requests |-> ZeroMetrics]
    /\ probe = <<>>
    /\ fake = <<>>
    /\ clientCert = <<>>
    /\ factory = <<>>
    /\ dispatch = <<>>

Next ==
    \/ \E r \in Requests : PanicCheckServeHTTP(r)
    \/ \E r \in Requests : PanicCheckReturn(r)
    \/ \E r \in Requests : PanicCheckRecover(r)
    \/ \E r \in Requests : RequestInfoServeHTTP(r)
    \/ \E r \in Requests : ProxyWriterServeHTTP(r)
    \/ \E r \in Requests : PassThroughServeHTTP(r)
    \/ \E r \in Requests : ReporterServeHTTP(r)
    \/ \E r \in Requests : ReporterAfterNext(r)
    \/ \E r \in Requests : ProxyHealthcheckServeHTTP(r)
    \/ \E r \in Requests : GateServeHTTP(r)
    \/ \E r \in Requests : ProxyServeHTTP(r)
    \/ \E r \in Requests : ProxyAfterNext(r)
    \/ \E r \in Requests : ReverseProxyDirector(r)
    \/ \E r \in Requests : ReverseProxyRoundTrip(r)
    \/ \E r \in Requests : HandlerPanics(r)
    \/ HealthcheckServeHTTP

Spec == Init /\ [][Next]_vars

\* The director on every request target up to MaxURILen: requests that have
\* come down the chain of NewProxy(NoOptions) to the reverse proxy
InitDirector ==
    /\ config = NoOptions
    /\ chain = NewProxy(config)
    /\ health = Healthy
    /\ clock = 1
    /\ frame = [r \in Requests |->
                    [pc |-> "call", idx |-> Len(chain), rec |-> NoPanic]]
    /\ trace = [r \in Requests |-> SubSeq(chain, 1, Len(chain) - 1)]
    /\ reqInfo = [r \in Requests |->
                    [NewRequestInfo EXCEPT !.RoutePool = TRUE,
                                           !.ProxyResponseWriter = TRUE,
                                           !.AppRequestStartedAt = 1]]
    /\ rw = [r \in Requests |-> NewResponseWriter(TRUE)]
    /\ request \in [Requests -> {InboundRequest(u, h) :
                        u \in RequestURIs,
                        h \in {x \in InboundHeaders :
                                    "Content-Length" \notin DOMAIN x}}]
    /\ outreq = [r \in Requests |-> <<>>]
    /\ metrics = [r \in Requests |-> ZeroMetrics]
    /\ probe = <<>>
    /\ fake = <<>>
    /\ clientCert = <<>>
    /\ factory = <<>>
    /\ dispatch = <<>>

NextDirector == \E r \in Requests : ReverseProxyDirector(r)

SpecDirector == InitDirector /\ [][NextDirector]_vars


-----------------------------------------------------------------------------
(* Properties *)

IsPrefix(s, t) == Len(s) <= Len(t) /\ SubSeq(t, 1, Len(s)) = s

Range(s) == {s[i] : i \in DOMAIN s}

\* The canonical handler order
Canonical ==
    <<"PanicGuard", "RequestInfo", "WriterWrap", "Zipkin", "W3C",
      "VCAPRequestID", "HTTPStartStop", "PromLatency", "AccessLog",
      "QueryParam", "Reporter", "HTTPRewrite", "ProxyHealthcheck",
      "ProtocolGate", "Lookup", "MaxRequestSize", "ClientCert", "HopByHop",
      "XForwardedProto", "RouteServiceDetour", "ProxyRequestPrep",
      "ReverseProxy">>

RECURSIVE CanonicalWith(_, _)
CanonicalWith(cfg, order) ==
    IF order = <<>> THEN <<>>
    ELSE LET h == Head(order)
             present ==
                CASE h = "HTTPStartStop" -> cfg.SendHttpStartStopServerEvent
                  [] h = "PromLatency" ->
                        cfg.promRegistry /\ cfg.PerAppPrometheusHttpMetricsReporting
                  [] OTHER -> TRUE
         IN  (IF present THEN <<h>> ELSE <<>>) \o CanonicalWith(cfg, Tail(order))

\* C1: the chain NewProxy builds is the canonical order less the optional
\* handlers the configuration leaves out, and every request enters the
\* handlers in that order (a prefix of it, up to the handler that resolves
\* the request).
C1_CanonicalOrder ==
    chain = NewProxy(config) =>
        /\ chain = CanonicalWith(config, Canonical)
        /\ \A r \in Requests : IsPrefix(trace[r], CanonicalWith(config, Canonical))

\* a request went through all 22 handlers and back
C1_Witness ==
    \E r \in Requests : frame[r].pc = "done" /\ trace[r] = Canonical

Stepped(r) == frame'[r] # frame[r]

\* C2: a panic with a value other than http.ErrAbortHandler never leaves the
\* chain, and the step in which the panic guard recovers it sets health to
\* Degraded, calls WriteHeader(503), sets Close and ends the panic.
C2_PanicRecovered ==
    /\ [](\A r \in Requests :
            frame[r].pc = "escaped" => frame[r].rec = ErrAbortHandler)
    /\ [][\A r \in Requests :
            (frame[r].pc = "panic" /\ frame[r].rec # ErrAbortHandler /\ Stepped(r))
            => /\ chain[frame[r].idx] = "PanicGuard"
               /\ health' = Degraded
               /\ rw'[r].written = Append(rw[r].written, 503)
               /\ request'[r].Close
               /\ frame'[r].pc \in {"post", "done"}
               /\ frame'[r].rec = NoPanic]_vars

\* the reporter's missing-RequestInfo panic was recovered
C2_Witness ==
    \E r \in Requests :
        /\ frame[r].pc = "done"
        /\ trace[r] = <<"PanicGuard", "Reporter">>
        /\ ~reqInfo[r].attached
        /\ rw[r].written = <<503>>
        /\ request[r].Close
        /\ health = Degraded

\* C3: the step in which the panic guard meets http.ErrAbortHandler raises
\* the same value again and changes neither health, nor the response, nor
\* the request.
C3_AbortReraised ==
    [][\A r \in Requests :
        (frame[r].pc = "panic" /\ frame[r].rec = ErrAbortHandler /\ Stepped(r))
        => /\ frame'[r].pc \in {"panic", "escaped"}
           /\ frame'[r].rec = ErrAbortHandler
           /\ health' = health
           /\ rw'[r] = rw[r]
           /\ request'[r] = request[r]]_vars

\* the sentinel reached the server with the instance healthy, nothing but
\* the backend's 200 written and the connection not marked
C3_Witness ==
    \E r \in Requests :
        /\ frame[r].pc = "escaped"
        /\ frame[r].rec = ErrAbortHandler
        /\ health = Healthy
        /\ rw[r].written = <<200>>
        /\ ~request[r].Close

\* C4: a health check answers 200 with body "ok\n" exactly when the health
\* state it read is Healthy, and 503 without a body otherwise.
C4_HealthcheckStatus ==
    probe # <<>> =>
        LET p == probe[1]
        IN  /\ (p.written = <<200>> /\ p.body = <<"ok\n">>) <=> p.healthRead = Healthy
            /\ p.healthRead # Healthy => (p.written = <<503>> /\ p.body = <<>>)

\* a health check while the instance was neither Healthy nor Degraded
C4_Witness ==
    /\ probe # <<>>
    /\ probe[1].healthRead = "Initializing"
    /\ probe[1].written = <<503>>

\* C5: every health check marks the connection for close.
C5_HealthcheckCloses == probe # <<>> => probe[1].Close

\* a 503 and a close after the panic guard degraded the instance
C5_Witness ==
    /\ probe # <<>>
    /\ probe[1].written = <<503>>
    /\ probe[1].healthRead = Degraded
    /\ probe[1].Close
    /\ \E r \in Requests : frame[r].pc = "done" /\ rw[r].written = <<503>>

\* control is in a handler upstream of the proxy handler, or in the server
UpstreamOfProxy(r) ==
    \/ frame[r].pc \in {"done", "escaped"}
    \/ /\ frame[r].pc \in {"post", "panic"}
       /\ chain[frame[r].idx] # "ProxyRequestPrep"

\* C6: in the chain of NewProxy, once a request has been through the proxy
\* handler, the handlers upstream of it see
\* AppRequestStartedAt <= AppRequestFinishedAt, however the reverse proxy
\* came back.
C6_StartedBeforeFinished ==
    chain = NewProxy(config) =>
        \A r \in Requests :
            ("ProxyRequestPrep" \in Range(trace[r]) /\ UpstreamOfProxy(r))
            => reqInfo[r].AppRequestStartedAt <= reqInfo[r].AppRequestFinishedAt

\* C7: a handler that finds no RequestInfo (the proxy handler also: no
\* RoutePool) panics in that step, does not call next and leaves the
\* RequestInfo, AppRequestStartedAt included, as it was.
C7_MissingInfoPanics ==
    [][\A r \in Requests :
        (/\ frame[r].pc = "call"
         /\ \/ /\ chain[frame[r].idx] \in {"WriterWrap", "Reporter", "ProxyRequestPrep"}
               /\ ~reqInfo[r].attached
            \/ /\ chain[frame[r].idx] = "ProxyRequestPrep"
               /\ ~reqInfo[r].RoutePool
         /\ Stepped(r))
        => /\ frame'[r].pc \in {"panic", "escaped"}
           /\ frame'[r].rec \notin {NoPanic, ErrAbortHandler}
           /\ trace'[r] = Append(trace[r], chain[frame[r].idx])
           /\ reqInfo'[r] = reqInfo[r]
           /\ reqInfo'[r].AppRequestStartedAt = 0]_vars

\* the proxy handler found the RequestInfo without a RoutePool
C7_Witness ==
    \E r \in Requests :
        /\ frame[r].pc = "panic"
        /\ frame[r].rec = "request-info-err"
        /\ trace[r][Len(trace[r])] = "ProxyRequestPrep"
        /\ reqInfo[r].attached
        /\ ~reqInfo[r].RoutePool
        /\ reqInfo[r].AppRequestStartedAt = 0

DoubleSlash == <<Ch.slash, Ch.slash>>

\* C8 as stated: after the director, Opaque is the RequestURI byte for byte
\* and RawQuery is empty, for every request.
C8_OpaqueIsRequestURI ==
    \A r \in Requests :
        frame[r].pc = "roundtrip" =>
            /\ outreq[r][1].URL.Opaque = request[r].RequestURI
            /\ outreq[r][1].URL.RawQuery = <<>>

\* C8 (amended): after the director RawQuery is empty; Opaque is the
\* RequestURI byte for byte when the RequestURI does not start with "//",
\* and begins with "//" + Host + "//" when it does.
C8_OpaqueIsRequestURIUnlessDoubleSlash ==
    \A r \in Requests :
        frame[r].pc = "roundtrip" =>
            /\ outreq[r][1].URL.RawQuery = <<>>
            /\ ~HasPrefix(request[r].RequestURI, DoubleSlash)
                    => outreq[r][1].URL.Opaque = request[r].RequestURI
            /\ HasPrefix(request[r].RequestURI, DoubleSlash)
                    => HasPrefix(outreq[r][1].URL.Opaque,
                                 DoubleSlash \o request[r].Host \o DoubleSlash)

\* a target with a query went out unchanged
C8_Witness ==
    \E r \in Requests :
        /\ frame[r].pc = "roundtrip"
        /\ request[r].URL.RawQuery # <<>>
        /\ outreq[r][1].URL.Opaque = request[r].RequestURI
        /\ outreq[r][1].URL.RawQuery = <<>>

DirectorStep(r) == frame[r].pc = "call" /\ frame'[r].pc = "roundtrip"

\* C9: the director leaves X-Request-Start as it is when the key is present
\* and sets it to the clock reading when it is absent; a second run of the
\* director, at any time, leaves the value of the first.
C9_XRequestStartOnce ==
    [][\A r \in Requests :
        DirectorStep(r) =>
            LET before == request[r].Header
                after == outreq'[r][1].Header
            IN  /\ XRequestStart \in DOMAIN after
                /\ XRequestStart \in DOMAIN before
                        => after[XRequestStart] = before[XRequestStart]
                /\ XRequestStart \notin DOMAIN before
                        => after[XRequestStart] = FormatInt(clock')
                /\ \A t \in 1..MaxClock :
                        setupProxyRequest(outreq'[r][1], t).Header[XRequestStart]
                            = after[XRequestStart]]_vars

\* the key came with an empty value, which went out, at a later time
C9_Witness ==
    \E r \in Requests :
        /\ frame[r].pc = "roundtrip"
        /\ XRequestStart \in DOMAIN request[r].Header
        /\ request[r].Header[XRequestStart] = <<>>
        /\ outreq[r][1].Header[XRequestStart] = <<>>
        /\ clock > 1

\* C10: the request the round-tripper gets has no X-CF-App-Instance header.
C10_NoAppInstanceHeader ==
    \A r \in Requests :
        frame[r].pc = "roundtrip" => CfAppInstance \notin DOMAIN outreq[r][1].Header

\* the header came in on a "//" target and is gone
C10_Witness ==
    \E r \in Requests :
        /\ frame[r].pc = "roundtrip"
        /\ CfAppInstance \in DOMAIN request[r].Header
        /\ HasPrefix(request[r].RequestURI, DoubleSlash)
        /\ CfAppInstance \notin DOMAIN outreq[r][1].Header

-----------------------------------------------------------------------------
(* The predicates NewProxy hands to the client-cert and forwarded-proto     *)
(* handlers                                                                 *)

\* The proxy as NewProxy(NoOptions) built it, with no request in the chain
NoRequest ==
    /\ config = NoOptions
    /\ chain = NewProxy(config)
    /\ health = Healthy
    /\ clock = 1
    /\ frame = [r \in Requests |-> [pc |-> "done", idx |-> 0, rec |-> NoPanic]]
    /\ trace = [r \in Requests |-> <<>>]
    /\ reqInfo = [r \in Requests |-> ZeroRequestInfo]
    /\ rw = [r \in Requests |-> NewResponseWriter(FALSE)]
    /\ request = [r \in Requests |-> InboundRequest(<<Ch.slash>>, <<>>)]
    /\ outreq = [r \in Requests |-> <<>>]
    /\ metrics = [r \in Requests |-> ZeroMetrics]
    /\ probe = <<>>

\* config.ForwardedClientCert
ALWAYS_FORWARD == "always_forward"
FORWARD == "forward"
SANITIZE_SET == "sanitize_set"
ALWAYS_SANITIZE == "always_sanitize"

ForwardedClientCertValues ==
    {ALWAYS_FORWARD, FORWARD, SANITIZE_SET, ALWAYS_SANITIZE}

\* What a RouteServiceValidator answers for one request
RouteServiceValidators ==
    [IsRouteServiceTraffic : BOOLEAN,
     ArrivedViaRouteService : [valid : BOOLEAN, err : BOOLEAN]]

SkipSanitizeXFP(routeServiceValidator, req) ==
    routeServiceValidator.IsRouteServiceTraffic

SkipSanitize_IgnoreTLS(routeServiceValidator, req) ==
    routeServiceValidator.IsRouteServiceTraffic

\* req.TLS: whether the connection state is non-nil
SkipSanitize(routeServiceValidator, req) ==
    routeServiceValidator.IsRouteServiceTraffic /\ req.TLS

ForceDeleteXFCCHeader_ErrorDropped(validator, forwardedClientCert, req) ==
    LET a == validator.ArrivedViaRouteService
    IN  [result |-> /\ a.valid
                    /\ forwardedClientCert # SANITIZE_SET
                    /\ forwardedClientCert # ALWAYS_FORWARD,
         err |-> FALSE]

ForceDeleteXFCCHeader(routeServiceValidator, forwardedClientCert, req) ==
    LET a == routeServiceValidator.ArrivedViaRouteService
    IN  IF a.err THEN [result |-> FALSE, err |-> TRUE]
        ELSE [result |-> /\ a.valid
                         /\ forwardedClientCert # SANITIZE_SET
                         /\ forwardedClientCert # ALWAYS_FORWARD,
              err |-> FALSE]

InitClientCert ==
    /\ NoRequest
    /\ fake = <<>>
    /\ clientCert \in [validator : RouteServiceValidators,
                       forwardedClientCert : ForwardedClientCertValues,
                       req : [TLS : BOOLEAN],
                       skipSanitizeXFP : {<<>>},
                       skipSanitize : {<<>>},
                       forceDelete : {<<>>}]
    /\ factory = <<>>
    /\ dispatch = <<>>

CallSkipSanitizeXFP ==
    /\ clientCert.skipSanitizeXFP = <<>>
    /\ clientCert' = [clientCert EXCEPT !.skipSanitizeXFP =
                        <<SkipSanitizeXFP(clientCert.validator, clientCert.req)>>]
    /\ UNCHANGED <<fake, factory, dispatch, config, chain, health, clock, frame, trace,
                   reqInfo, rw, request, outreq, metrics, probe>>

CallSkipSanitize ==
    /\ clientCert.skipSanitize = <<>>
    /\ clientCert' = [clientCert EXCEPT !.skipSanitize =
                        <<SkipSanitize(clientCert.validator, clientCert.req)>>]
    /\ UNCHANGED <<fake, factory, dispatch, config, chain, health, clock, frame, trace,
                   reqInfo, rw, request, outreq, metrics, probe>>

CallForceDeleteXFCCHeader ==
    /\ clientCert.forceDelete = <<>>
    /\ clientCert' = [clientCert EXCEPT !.forceDelete =
                        <<ForceDeleteXFCCHeader(clientCert.validator,
                                                clientCert.forwardedClientCert,
                                                clientCert.req)>>]
    /\ UNCHANGED <<fake, factory, dispatch, config, chain, health, clock, frame, trace,
                   reqInfo, rw, request, outreq, metrics, probe>>

NextClientCert ==
    \/ CallSkipSanitizeXFP
    \/ CallSkipSanitize
    \/ CallForceDeleteXFCCHeader

SpecClientCert == InitClientCert /\ [][NextClientCert]_vars

\* C11: SkipSanitize answers true exactly for route-service traffic on a TLS
\* connection; route-service traffic over plain HTTP and TLS traffic that is
\* not route-service traffic are sanitized.
C11_SkipSanitizeIffRouteServiceAndTLS ==
    clientCert.skipSanitize # <<>> =>
        (clientCert.skipSanitize[1] <=>
            (clientCert.validator.IsRouteServiceTraffic /\ clientCert.req.TLS))

\* route-service traffic over plain HTTP was not exempted
C11_Witness ==
    /\ clientCert.skipSanitize = <<FALSE>>
    /\ clientCert.validator.IsRouteServiceTraffic
    /\ ~clientCert.req.TLS

-----------------------------------------------------------------------------
(* The transport templates of NewProxy *)

\* time.Duration values, in seconds
Durations == {0, 10}

\* The fields of config.Config that the dialer and the templates read
TransportConfigs ==
    [EndpointDialTimeout : Durations,
     EndpointKeepAliveProbeInterval : Durations,
     DisableKeepAlives : BOOLEAN,
     MaxIdleConns : {0, 100},
     MaxIdleConnsPerHost : {0, 100},
     TLSHandshakeTimeout : Durations,
     SendHttpStartStopClientEvent : BOOLEAN]

\* *tls.Config arguments of NewProxy
TLSConfigs == {"nil", "tlsConfigA", "tlsConfigB"}

\* &net.Dialer{...}
NewDialer(cfg) ==
    [Timeout |-> cfg.EndpointDialTimeout,
     KeepAlive |-> cfg.EndpointKeepAliveProbeInterval]

\* &http.Transport{}: every field zero
ZeroTransport ==
    [DialContext |-> "nil", DisableKeepAlives |-> FALSE, MaxIdleConns |-> 0,
     IdleConnTimeout |-> 0, MaxIdleConnsPerHost |-> 0,
     DisableCompression |-> FALSE, TLSClientConfig |-> "nil",
     TLSHandshakeTimeout |-> 0, ExpectContinueTimeout |-> 0]

\* roundTripperFactory := &round_tripper.FactoryImpl{...}
NewRoundTripperFactory(cfg, backendTLSConfig, routeServiceTLSConfig) ==
    LET dialer == NewDialer(cfg)
    IN  [BackendTemplate |->
            [ZeroTransport EXCEPT
                !.DialContext = dialer,
                !.DisableKeepAlives = cfg.DisableKeepAlives,
                !.MaxIdleConns = cfg.MaxIdleConns,
                !.IdleConnTimeout = 90,
                !.MaxIdleConnsPerHost = cfg.MaxIdleConnsPerHost,
                !.DisableCompression = TRUE,
                !.TLSClientConfig = backendTLSConfig,
                !.TLSHandshakeTimeout = cfg.TLSHandshakeTimeout,
                !.ExpectContinueTimeout = 1],
         RouteServiceTemplate |->
            [ZeroTransport EXCEPT
                !.DialContext = dialer,
                !.DisableKeepAlives = cfg.DisableKeepAlives,
                !.MaxIdleConns = cfg.MaxIdleConns,
                !.IdleConnTimeout = 90,
                !.MaxIdleConnsPerHost = cfg.MaxIdleConnsPerHost,
                !.DisableCompression = TRUE,
                !.TLSClientConfig = routeServiceTLSConfig,
                !.ExpectContinueTimeout = 1],
         IsInstrumented |-> cfg.SendHttpStartStopClientEvent]

InitTransports ==
    /\ NoRequest
    /\ fake = <<>>
    /\ clientCert = <<>>
    /\ factory \in [cfg : TransportConfigs,
                    backendTLSConfig : TLSConfigs,
                    routeServiceTLSConfig : TLSConfigs,
                    roundTripperFactory : {<<>>}]
    /\ dispatch = <<>>

NewProxyTransports ==
    /\ factory.roundTripperFactory = <<>>
    /\ factory' = [factory EXCEPT !.roundTripperFactory =
                    <<NewRoundTripperFactory(factory.cfg, factory.backendTLSConfig,
                                             factory.routeServiceTLSConfig)>>]
    /\ UNCHANGED <<fake, clientCert, dispatch, config, chain, health, clock, frame,
                   trace, reqInfo, rw, request, outreq, metrics, probe>>

NextTransports == NewProxyTransports

SpecTransports == InitTransports /\ [][NextTransports]_vars

\* C12: the two templates are equal in every setting but TLSClientConfig.
C12_TemplatesDifferOnlyInTLSConfig ==
    factory.roundTripperFactory # <<>> =>
        LET f == factory.roundTripperFactory[1]
        IN  \A setting \in DOMAIN ZeroTransport \ {"TLSClientConfig"} :
                f.BackendTemplate[setting] = f.RouteServiceTemplate[setting]

-----------------------------------------------------------------------------
(* The panic guard wrapped in the panic guard *)

\* The chains of Init with one more NewPanicCheck in front
InitGuard ==
    /\ config = NoOptions
    /\ chain \in {<<"PanicGuard">> \o c : c \in {NewProxy(config)} \cup HarnessChains}
    /\ health \in HealthStates
    /\ clock = 1
    /\ frame = [r \in Requests |-> [pc |-> "call", idx |-> 1, rec |-> NoPanic]]
    /\ trace = [r \in Requests |-> <<>>]
    /\ reqInfo \in [Requests -> IF Tail(chain) \in HarnessChains
                                THEN HarnessContexts ELSE {ZeroRequestInfo}]
    /\ rw \in [Requests -> {NewResponseWriter(w) :
                    w \in IF Tail(chain) \in HarnessChains THEN BOOLEAN ELSE {FALSE}}]
    /\ request \in [Requests -> {InboundRequest(u, h) :
                        u \in SampleURIs, h \in InboundHeaders}]
    /\ outreq = [r \in Requests |-> <<>>]
    /\ metrics = [r \in Requests |-> ZeroMetrics]
    /\ probe = <<>>
    /\ fake = <<>>
    /\ clientCert = <<>>
    /\ factory = <<>>
    /\ dispatch = <<>>

SpecGuard == InitGuard /\ [][Next]_vars

\* C13: what the inner panic guard hands to the outer one is what a single
\* panic guard hands to the server; the outer guard passes it on as it is
\* (a return as a return, the abort sentinel as the abort sentinel) and
\* changes neither health, nor the response, nor the request.
C13_OuterGuardChangesNothing ==
    [][\A r \in Requests :
        (/\ chain[2] = "PanicGuard"
         /\ frame[r].idx = 1
         /\ frame[r].pc \in {"post", "panic"}
         /\ Stepped(r))
        => /\ health' = health
           /\ rw'[r] = rw[r]
           /\ request'[r] = request[r]
           /\ frame[r].pc = "post" => frame'[r].pc = "done"
           /\ frame[r].pc = "panic" =>
                /\ frame[r].rec = ErrAbortHandler
                /\ frame'[r].pc = "escaped"
                /\ frame'[r].rec = ErrAbortHandler]_vars

\* a panic other than the sentinel went through both guards: one 503
C13_Witness ==
    \E r \in Requests :
        /\ chain[2] = "PanicGuard"
        /\ frame[r].pc = "done"
        /\ Len(trace[r]) > 2
        /\ rw[r].written = <<503>>
        /\ request[r].Close
        /\ health = Degraded

-----------------------------------------------------------------------------
(* The reporter's metrics *)

ReachedReporter(r) == "Reporter" \in Range(trace[r])

\* C14: from the step in which the reporter is entered with a RequestInfo,
\* and so before anything downstream runs, CaptureMissingContentLengthHeader
\* has been called once when Content-Length is empty or absent and not at
\* all otherwise; the count stays whatever the handlers downstream do.
C14_MissingContentLengthOnce ==
    \A r \in Requests :
        LET missing == HeaderGet(request[r].Header, "Content-Length") = <<>>
            count == metrics[r].MissingContentLengthHeader
        IN  /\ ~ReachedReporter(r) => count = 0
            /\ (ReachedReporter(r) /\ reqInfo[r].attached)
                    => count = IF missing THEN 1 ELSE 0

\* Content-Length came with an empty value, a handler downstream of the
\* reporter panicked, and the metric is there
C14_Witness ==
    \E r \in Requests :
        /\ frame[r].pc = "done"
        /\ chain = NewProxy(config)
        /\ ReachedReporter(r)
        /\ trace[r][Len(trace[r])] # "Reporter"
        /\ rw[r].written = <<503>>
        /\ health = Degraded
        /\ "Content-Length" \in DOMAIN request[r].Header
        /\ request[r].Header["Content-Length"] = <<>>
        /\ metrics[r].MissingContentLengthHeader = 1

-----------------------------------------------------------------------------
(* The proxy round-tripper (round_tripper.NewProxyRoundTripper): the        *)
(* per-attempt loop, on its own                                             *)

Endpoints == {"ep1", "ep2", "ep3"}

\* Values of MaxAttempts
AttemptLimits == {1, 2, 3}

\* How the classifiers class the outcome of one dispatch
OutcomeClasses ==
    {"response", "retriable", "host-misbehaving", "context-canceled",
     "non-retriable"}

\* The error-handler table: class to status
ErrorStatus ==
    [x \in {"host-misbehaving", "context-canceled", "non-retriable",
            "attempt-exhausted", "no-endpoint"} |->
        CASE x = "host-misbehaving" -> 503
          [] x = "context-canceled" -> 499
          [] x = "no-endpoint" -> 503
          [] OTHER -> 502]

InitRoundTrip ==
    /\ NoRequest
    /\ fake = <<>>
    /\ clientCert = <<>>
    /\ factory = <<>>
    /\ dispatch \in [Pool : SUBSET Endpoints,
                     MaxAttempts : AttemptLimits,
                     FailedEndpoints : {{}},
                     Attempts : {<<>>},
                     RouteEndpoint : {"nil"},
                     pc : {"select"},
                     result : {<<>>}]

SelectEndpoint_FromWholePool ==
    /\ dispatch.pc = "select"
    /\ IF dispatch.Pool = {}
       THEN dispatch' = [dispatch EXCEPT
                !.pc = "done",
                !.result = <<[class |-> "no-endpoint",
                              status |-> ErrorStatus["no-endpoint"]]>>]
       ELSE \E e \in dispatch.Pool :
                dispatch' = [dispatch EXCEPT !.RouteEndpoint = e, !.pc = "dispatch"]
    /\ UNCHANGED <<fake, clientCert, factory, config, chain, health, clock, frame,
                   trace, reqInfo, rw, request, outreq, metrics, probe>>

\* Step 1: the next endpoint of the pool that is not in FailedEndpoints, or
\* 503 when none is left
SelectEndpoint ==
    /\ dispatch.pc = "select"
    /\ LET eligible == dispatch.Pool \ dispatch.FailedEndpoints
       IN  IF eligible = {}
           THEN dispatch' = [dispatch EXCEPT
                    !.pc = "done",
                    !.result = <<[class |-> "no-endpoint",
                                  status |-> ErrorStatus["no-endpoint"]]>>]
           ELSE \E e \in eligible :
                    dispatch' = [dispatch EXCEPT !.RouteEndpoint = e,
                                                 !.pc = "dispatch"]
    /\ UNCHANGED <<fake, clientCert, factory, config, chain, health, clock, frame,
                   trace, reqInfo, rw, request, outreq, metrics, probe>>

DispatchAttempt_RetryOnAnyError ==
    /\ dispatch.pc = "dispatch"
    /\ \E class \in OutcomeClasses :
        LET e == dispatch.RouteEndpoint
            attempts == Append(dispatch.Attempts, [endpoint |-> e, class |-> class])
        IN  IF class = "response"
            THEN dispatch' = [dispatch EXCEPT
                    !.Attempts = attempts, !.pc = "done",
                    !.result = <<[class |-> class, status |-> 200]>>]
            ELSE IF Len(attempts) >= dispatch.MaxAttempts
            THEN dispatch' = [dispatch EXCEPT
                    !.Attempts = attempts,
                    !.FailedEndpoints = @ \cup {e},
                    !.pc = "done",
                    !.result = <<[class |-> "attempt-exhausted",
                                  status |-> ErrorStatus["attempt-exhausted"]]>>]
            ELSE dispatch' = [dispatch EXCEPT
                    !.Attempts = attempts,
                    !.FailedEndpoints = @ \cup {e},
                    !.pc = "select"]
    /\ UNCHANGED <<fake, clientCert, factory, config, chain, health, clock, frame,
                   trace, reqInfo, rw, request, outreq, metrics, probe>>

\* Steps 3 to 5: dispatch to the selected endpoint, class the outcome, record
\* the attempt; only a retriable outcome goes back to step 1, and only while
\* attempts are left
DispatchAttempt ==
    /\ dispatch.pc = "dispatch"
    /\ \E class \in OutcomeClasses :
        LET e == dispatch.RouteEndpoint
            attempts == Append(dispatch.Attempts, [endpoint |-> e, class |-> class])
        IN  IF class = "response"
            THEN dispatch' = [dispatch EXCEPT
                    !.Attempts = attempts, !.pc = "done",
                    !.result = <<[class |-> class, status |-> 200]>>]
            ELSE IF class # "retriable"
            THEN dispatch' = [dispatch EXCEPT
                    !.Attempts = attempts, !.pc = "done",
                    !.result = <<[class |-> class, status |-> ErrorStatus[class]]>>]
            ELSE IF Len(attempts) >= dispatch.MaxAttempts
            THEN dispatch' = [dispatch EXCEPT
                    !.Attempts = attempts,
                    !.FailedEndpoints = @ \cup {e},
                    !.pc = "done",
                    !.result = <<[class |-> "attempt-exhausted",
                                  status |-> ErrorStatus["attempt-exhausted"]]>>]
            ELSE dispatch' = [dispatch EXCEPT
                    !.Attempts = attempts,
                    !.FailedEndpoints = @ \cup {e},
                    !.pc = "select"]
    /\ UNCHANGED <<fake, clientCert, factory, config, chain, health, clock, frame,
                   trace, reqInfo, rw, request, outreq, metrics, probe>>

NextRoundTrip ==
    \/ SelectEndpoint
    \/ DispatchAttempt

SpecRoundTrip == InitRoundTrip /\ [][NextRoundTrip]_vars

\* C15: never more than MaxAttempts attempts, no two against the same
\* endpoint, every attempt but the last classed retriable; when the
\* round-tripper is done it holds a response or an error, and the last
\* attempt is retriable only when the attempts or the endpoints ran out.
C15_AtMostMaxAttemptsDistinct ==
    LET a == dispatch.Attempts
    IN  /\ Len(a) <= dispatch.MaxAttempts
        /\ \A i, j \in DOMAIN a : i # j => a[i].endpoint # a[j].endpoint
        /\ \A i \in DOMAIN a : i < Len(a) => a[i].class = "retriable"
        /\ dispatch.pc = "done" =>
            /\ dispatch.result # <<>>
            /\ dispatch.result[1].class = "response"
                    <=> (a # <<>> /\ a[Len(a)].class = "response")
            /\ (a # <<>> /\ a[Len(a)].class = "retriable") =>
                    \/ Len(a) = dispatch.MaxAttempts
                    \/ dispatch.Pool \subseteq dispatch.FailedEndpoints

\* ep1 failed retriably, the second attempt got the response of another
\* endpoint, with an attempt to spare
C15_Witness ==
    /\ dispatch.pc = "done"
    /\ dispatch.MaxAttempts = 3
    /\ Len(dispatch.Attempts) = 2
    /\ dispatch.Attempts[1].class = "retriable"
    /\ dispatch.Attempts[2].class = "response"
    /\ dispatch.result[1].status = 200

-----------------------------------------------------------------------------
(* Two requests in the chain at once, and the health listener *)

ConcurrentRequests == {1, 2}

InitConcurrent ==
    /\ config = NoOptions
    /\ chain = NewProxy(config)
    /\ health \in HealthStates
    /\ clock = 1
    /\ frame = [r \in ConcurrentRequests |->
                    [pc |-> "call", idx |-> 1, rec |-> NoPanic]]
    /\ trace = [r \in ConcurrentRequests |-> <<>>]
    /\ reqInfo = [r \in ConcurrentRequests |-> ZeroRequestInfo]
    /\ rw = [r \in ConcurrentRequests |-> NewResponseWriter(FALSE)]
    /\ request = [r \in ConcurrentRequests |->
                    InboundRequest(<<Ch.slash, Ch.a>>, <<>>)]
    /\ outreq = [r \in ConcurrentRequests |-> <<>>]
    /\ metrics = [r \in ConcurrentRequests |-> ZeroMetrics]
    /\ probe = <<>>
    /\ fake = <<>>
    /\ clientCert = <<>>
    /\ factory = <<>>
    /\ dispatch = <<>>

NextConcurrent ==
    \/ \E r \in ConcurrentRequests : PanicCheckServeHTTP(r)
    \/ \E r \in ConcurrentRequests : PanicCheckReturn(r)
    \/ \E r \in ConcurrentRequests : PanicCheckRecover(r)
    \/ \E r \in ConcurrentRequests : RequestInfoServeHTTP(r)
    \/ \E r \in ConcurrentRequests : ProxyWriterServeHTTP(r)
    \/ \E r \in ConcurrentRequests : PassThroughServeHTTP(r)
    \/ \E r \in ConcurrentRequests : ReporterServeHTTP(r)
    \/ \E r \in ConcurrentRequests : ReporterAfterNext(r)
    \/ \E r \in ConcurrentRequests : ProxyHealthcheckServeHTTP(r)
    \/ \E r \in ConcurrentRequests : GateServeHTTP(r)
    \/ \E r \in ConcurrentRequests : ProxyServeHTTP(r)
    \/ \E r \in ConcurrentRequests : ProxyAfterNext(r)
    \/ \E r \in ConcurrentRequests : ReverseProxyDirector(r)
    \/ \E r \in ConcurrentRequests : ReverseProxyRoundTrip(r)
    \/ \E r \in ConcurrentRequests : HandlerPanics(r)
    \/ HealthcheckServeHTTP

SpecConcurrent == InitConcurrent /\ [][NextConcurrent]_vars

\* C17: once health is Degraded no step of any request's handler changes it,
\* and a health check taken then answers 503.
C17_DegradedStaysDegraded ==
    [][health = Degraded =>
        /\ health' = Degraded
        /\ probe' # probe => probe'[1].written = <<503>>]_vars

\* request 1 ended in the panic guard's 503, request 2 went through to the
\* backend's 200, and the health check answers 503
C17_Witness ==
    /\ frame[1].pc = "done"
    /\ rw[1].written = <<503>>
    /\ request[1].Close
    /\ trace[1][Len(trace[1])] # "ProxyHealthcheck"
    /\ frame[2].pc = "done"
    /\ rw[2].written = <<200>>
    /\ trace[2] = chain
    /\ probe # <<>>
    /\ probe[1].healthRead = Degraded
    /\ probe[1].written = <<503>>

-----------------------------------------------------------------------------
(* The reporter with and without the proxy handler behind it *)

\* The harness chains, and one in which the reporter's next is the reverse
\* proxy itself, so that an endpoint is selected and AppRequestFinishedAt is
\* never set
ReporterChains ==
    HarnessChains \cup {<<"PanicGuard", "WriterWrap", "Reporter", "ReverseProxy">>}

InitReporter ==
    /\ config = NoOptions
    /\ chain \in {NewProxy(config)} \cup ReporterChains
    /\ health \in HealthStates
    /\ clock = 1
    /\ frame = [r \in Requests |-> [pc |-> "call", idx |-> 1, rec |-> NoPanic]]
    /\ trace = [r \in Requests |-> <<>>]
    /\ reqInfo \in [Requests -> IF chain \in ReporterChains
                                THEN HarnessContexts ELSE {ZeroRequestInfo}]
    /\ rw \in [Requests -> {NewResponseWriter(w) :
                    w \in IF chain \in ReporterChains THEN BOOLEAN ELSE {FALSE}}]
    /\ request \in [Requests -> {InboundRequest(u, h) :
                        u \in SampleURIs, h \in InboundHeaders}]
    /\ outreq = [r \in Requests |-> <<>>]
    /\ metrics = [r \in Requests |-> ZeroMetrics]
    /\ probe = <<>>
    /\ fake = <<>>
    /\ clientCert = <<>>
    /\ factory = <<>>
    /\ dispatch = <<>>

SpecReporter == InitReporter /\ [][Next]_vars

\* C18: the routing-response metric is captured at most once, only after
\* next returned to the reporter and only with an endpoint selected; the
\* latency metric only together with it and only with AppRequestFinishedAt
\* set; a request that never got to endpoint selection has neither.
C18_ReporterMetricsGuarded ==
    \A r \in Requests :
        LET response == metrics[r].RoutingResponse
            latency == metrics[r].RoutingResponseLatency
        IN  /\ latency <= response
            /\ response <= 1
            /\ response > 0 =>
                /\ reqInfo[r].RouteEndpoint
                /\ frame[r].pc \in {"post", "done"}
                /\ ReachedReporter(r)
            /\ latency > 0 => reqInfo[r].AppRequestFinishedAt # 0
            /\ "ReverseProxy" \notin Range(trace[r]) => (response = 0 /\ latency = 0)

\* an endpoint answered but AppRequestFinishedAt was never set: the response
\* metric without the latency metric
C18_Witness ==
    \E r \in Requests :
        /\ frame[r].pc = "done"
        /\ reqInfo[r].RouteEndpoint
        /\ reqInfo[r].AppRequestFinishedAt = 0
        /\ metrics[r].RoutingResponse = 1
        /\ metrics[r].RoutingResponseLatency = 0

-----------------------------------------------------------------------------
(* next *)

NextCallers == {"PanicGuard", "WriterWrap", "Reporter", "ProxyRequestPrep"}

\* C19: no handler is entered twice in one request, so no next is invoked
\* twice; a step of the panic guard, the writer wrapper, the reporter or the
\* proxy handler that writes a status or raises a panic does not invoke
\* next, and neither does any of their steps after next came back.
C19_NextAtMostOnce ==
    [][\A r \in Requests :
        /\ trace'[r] # trace[r] =>
            \E h \in Range(chain) \ Range(trace[r]) : trace'[r] = Append(trace[r], h)
        /\ (/\ frame[r].pc \in {"call", "post", "panic"}
            /\ chain[frame[r].idx] \in NextCallers
            /\ Stepped(r)
            /\ \/ rw'[r].written # rw[r].written
               \/ frame'[r].pc \in {"panic", "escaped"}
               \/ frame[r].pc \in {"post", "panic"})
           => /\ frame'[r].pc # "call"
              /\ trace'[r] \in {trace[r], Append(trace[r], chain[frame[r].idx])}]_vars

\* the writer wrapper raised the misuse panic, the panic guard wrote 503, and
\* nothing downstream was entered
C19_Witness ==
    \E r \in Requests :
        /\ frame[r].pc = "done"
        /\ Len(chain) > 2
        /\ trace[r] = <<"PanicGuard", "WriterWrap">>
        /\ rw[r].written = <<503>>

-----------------------------------------------------------------------------
(* Misuse of the chain *)

\* C20: in the chain of NewProxy the writer wrapper, the reporter and the
\* proxy handler are entered with a RequestInfo attached, the writer type
\* assertions of the reporter and of the proxy handler are reached with the
\* wrapped writer, and no request-info-err or type-assertion panic is raised.
C20_MisusePanicsUnreachable ==
    chain = NewProxy(config) =>
        \A r \in Requests :
            /\ (/\ frame[r].pc = "call"
                /\ chain[frame[r].idx] \in {"WriterWrap", "Reporter", "ProxyRequestPrep"})
               => reqInfo[r].attached
            /\ At(r, "call", "ProxyRequestPrep") => rw[r].wrapped
            /\ (At(r, "post", "Reporter") /\ reqInfo[r].RouteEndpoint) => rw[r].wrapped
            /\ frame[r].rec \notin {"request-info-err", "runtime-error"}

\* the reporter is at its type assertion, after an endpoint answered
C20_Witness ==
    \E r \in Requests :
        /\ chain = NewProxy(config)
        /\ At(r, "post", "Reporter")
        /\ reqInfo[r].RouteEndpoint
        /\ reqInfo[r].attached
        /\ rw[r].wrapped

-----------------------------------------------------------------------------
(* Opaque of a target that starts with "//" *)

\* the parts with sep between each two of them
RECURSIVE Join(_, _)
Join(parts, sep) ==
    IF parts = <<>> THEN <<>>
    ELSE IF Len(parts) = 1 THEN parts[1]
    ELSE parts[1] \o sep \o Join(Tail(parts), sep)

\* C21: for a RequestURI that starts with "//" the director's Opaque is
\* "//" + Host + the segments of URL.Path, each escaped on its own, with the
\* "/" between them as in URL.Path, then "?" + the encoded query exactly
\* when the query has a parameter; for any other RequestURI Opaque is the
\* RequestURI.
C21_DoubleSlashOpaque ==
    \A r \in Requests :
        frame[r].pc = "roundtrip" =>
            LET in == request[r]
                opaque == outreq[r][1].URL.Opaque
                segments == Split(in.URL.Path, Ch.slash)
                escaped == [i \in DOMAIN segments |-> PathEscape(segments[i])]
                query == parseQuery(in.URL.RawQuery)
                base == DoubleSlash \o in.Host \o Join(escaped, <<Ch.slash>>)
            IN  IF HasPrefix(in.RequestURI, DoubleSlash)
                THEN /\ ValuesLen(query) > 0 =>
                            opaque = base \o <<Ch.qm>> \o Encode(query)
                     /\ ValuesLen(query) = 0 => opaque = base
                     /\ Len(Split(SubSeq(opaque, 3 + Len(in.Host),
                                         Len(base)), Ch.slash)) = Len(segments)
                ELSE opaque = in.RequestURI

\* URL.Path is "//", three empty segments, and the query has a parameter
C21_Witness ==
    \E r \in Requests :
        /\ frame[r].pc = "roundtrip"
        /\ HasPrefix(request[r].RequestURI, DoubleSlash)
        /\ Len(Split(request[r].URL.Path, Ch.slash)) = 3
        /\ ValuesLen(parseQuery(request[r].URL.RawQuery)) > 0
        /\ outreq[r][1].URL.Opaque
                = DoubleSlash \o request[r].Host \o DoubleSlash
                    \o <<Ch.qm>> \o Encode(parseQuery(request[r].URL.RawQuery))

-----------------------------------------------------------------------------
(* ForceDeleteXFCCHeader *)

\* C22: ForceDeleteXFCCHeader returns (false, err) whenever the validator
\* reports an error; with no error it returns true exactly when the request
\* validly arrived via a route service and the policy is neither
\* sanitize_set nor always_forward.
C22_ForceDeleteXFCC ==
    clientCert.forceDelete # <<>> =>
        LET got == clientCert.forceDelete[1]
            arrived == clientCert.validator.ArrivedViaRouteService
            policy == clientCert.forwardedClientCert
        IN  IF arrived.err
            THEN got.result = FALSE /\ got.err = TRUE
            ELSE /\ got.err = FALSE
                 /\ got.result = TRUE <=>
                        /\ arrived.valid
                        /\ policy \notin {SANITIZE_SET, ALWAYS_FORWARD}

\* the validator reports an error together with valid = true, under a
\* policy that would otherwise delete the header
C22_Witness ==
    /\ clientCert.validator.ArrivedViaRouteService = [valid |-> TRUE, err |-> TRUE]
    /\ clientCert.forwardedClientCert = ALWAYS_SANITIZE
    /\ clientCert.forceDelete = <<[result |-> FALSE, err |-> TRUE]>>

-----------------------------------------------------------------------------
(* The fake RoundTripper called from several goroutines *)

Goroutines == {1, 2, 3}

Methods == {"RoundTrip", "RoundTripCallCount", "Invocations"}

\* sync.RWMutex. w is the goroutine that holds the write lock or has asked
\* for it and waits for the readers to leave (0: none); locked says that it
\* holds it; readers are the goroutines that hold a read lock. RLock blocks
\* while a writer holds or waits, Lock while another writer does, and then
\* until the readers have left.
ZeroRWMutex == [w |-> 0, locked |-> FALSE, readers |-> {}]

CanRLock(mu) == mu.w = 0

RLock(mu, g) == [mu EXCEPT !.readers = @ \cup {g}]

RUnlock(mu, g) == [mu EXCEPT !.readers = @ \ {g}]

CanLock(mu) == mu.w = 0

\* Lock, first half: the writer announces itself, new readers are held off
Lock(mu, g) == [mu EXCEPT !.w = g]

\* Lock, second half: the readers have left
CanLocked(mu, g) == mu.w = g /\ mu.readers = {}

Locked(mu) == [mu EXCEPT !.locked = TRUE]

Unlock(mu) == [mu EXCEPT !.w = 0, !.locked = FALSE]

\* roundTripArgsForCall and invocations["RoundTrip"] by their lengths
NewFakeRoundTripper ==
    [roundTripMutex |-> ZeroRWMutex,
     roundTripArgsForCall |-> 0,
     invocations |-> 0,
     invocationsMutex |-> ZeroRWMutex,
     pc |-> [g \in Goroutines |-> "idle"],
     returned |-> [g \in Goroutines |-> <<>>]]

InitFake ==
    /\ NoRequest
    /\ clientCert = <<>>
    /\ factory = <<>>
    /\ dispatch = <<>>
    /\ fake = NewFakeRoundTripper

FakeUnchanged ==
    UNCHANGED <<config, chain, health, clock, frame, trace, reqInfo, rw,
                request, outreq, metrics, probe, clientCert, factory,
                dispatch>>

\* a goroutine calls a method of the fake
FakeCall(g) ==
    /\ fake.pc[g] = "idle"
    /\ \E method \in Methods : fake' = [fake EXCEPT !.pc[g] = method]
    /\ FakeUnchanged

\* fake.roundTripMutex.Lock()
RoundTripLock(g) ==
    /\ fake.pc[g] = "RoundTrip"
    /\ CanLock(fake.roundTripMutex)
    /\ fake' = [fake EXCEPT !.roundTripMutex = Lock(@, g),
                            !.pc[g] = "RoundTrip.Lock"]
    /\ FakeUnchanged

\* the lock is taken; the call is appended to roundTripArgsForCall
RoundTripAppend(g) ==
    /\ fake.pc[g] = "RoundTrip.Lock"
    /\ CanLocked(fake.roundTripMutex, g)
    /\ fake' = [fake EXCEPT !.roundTripMutex = Locked(@),
                            !.roundTripArgsForCall = @ + 1,
                            !.pc[g] = "recordInvocation"]
    /\ FakeUnchanged

\* recordInvocation: fake.invocationsMutex.Lock()
recordInvocationLock(g) ==
    /\ fake.pc[g] = "recordInvocation"
    /\ CanLock(fake.invocationsMutex)
    /\ fake' = [fake EXCEPT !.invocationsMutex = Lock(@, g),
                            !.pc[g] = "recordInvocation.Lock"]
    /\ FakeUnchanged

\* recordInvocation: the lock is taken, the invocation is appended and the
\* deferred Unlock runs
recordInvocation(g) ==
    /\ fake.pc[g] = "recordInvocation.Lock"
    /\ CanLocked(fake.invocationsMutex, g)
    /\ fake' = [fake EXCEPT !.invocationsMutex = Unlock(@),
                            !.invocations = @ + 1,
                            !.pc[g] = "RoundTrip.Unlock"]
    /\ FakeUnchanged

\* fake.roundTripMutex.Unlock(), then the stub or the configured return
RoundTripUnlock(g) ==
    /\ fake.pc[g] = "RoundTrip.Unlock"
    /\ fake' = [fake EXCEPT !.roundTripMutex = Unlock(@),
                            !.pc[g] = "RoundTrip.done"]
    /\ FakeUnchanged

\* RoundTripCallCount: fake.roundTripMutex.RLock()
RoundTripCallCountRLock(g) ==
    /\ fake.pc[g] = "RoundTripCallCount"
    /\ CanRLock(fake.roundTripMutex)
    /\ fake' = [fake EXCEPT !.roundTripMutex = RLock(@, g),
                            !.pc[g] = "RoundTripCallCount.RLock"]
    /\ FakeUnchanged

\* RoundTripCallCount: len(fake.roundTripArgsForCall), deferred RUnlock
RoundTripCallCount(g) ==
    /\ fake.pc[g] = "RoundTripCallCount.RLock"
    /\ fake' = [fake EXCEPT !.roundTripMutex = RUnlock(@, g),
                            !.returned[g] = <<fake.roundTripArgsForCall>>,
                            !.pc[g] = "RoundTripCallCount.done"]
    /\ FakeUnchanged

\* Invocations: fake.invocationsMutex.RLock()
InvocationsRLock(g) ==
    /\ fake.pc[g] = "Invocations"
    /\ CanRLock(fake.invocationsMutex)
    /\ fake' = [fake EXCEPT !.invocationsMutex = RLock(@, g),
                            !.pc[g] = "Invocations.RLock"]
    /\ FakeUnchanged

\* Invocations: fake.roundTripMutex.RLock(), holding invocationsMutex
InvocationsRLockRoundTrip(g) ==
    /\ fake.pc[g] = "Invocations.RLock"
    /\ CanRLock(fake.roundTripMutex)
    /\ fake' = [fake EXCEPT !.roundTripMutex = RLock(@, g),
                            !.pc[g] = "Invocations.copy"]
    /\ FakeUnchanged

\* Invocations: the copy of the map, then the two deferred RUnlocks
Invocations(g) ==
    /\ fake.pc[g] = "Invocations.copy"
    /\ fake' = [fake EXCEPT !.roundTripMutex = RUnlock(@, g),
                            !.invocationsMutex = RUnlock(@, g),
                            !.returned[g] = <<fake.invocations>>,
                            !.pc[g] = "Invocations.done"]
    /\ FakeUnchanged

NextFake ==
    \/ \E g \in Goroutines : FakeCall(g)
    \/ \E g \in Goroutines : RoundTripLock(g)
    \/ \E g \in Goroutines : RoundTripAppend(g)
    \/ \E g \in Goroutines : recordInvocationLock(g)
    \/ \E g \in Goroutines : recordInvocation(g)
    \/ \E g \in Goroutines : RoundTripUnlock(g)
    \/ \E g \in Goroutines : RoundTripCallCountRLock(g)
    \/ \E g \in Goroutines : RoundTripCallCount(g)
    \/ \E g \in Goroutines : InvocationsRLock(g)
    \/ \E g \in Goroutines : InvocationsRLockRoundTrip(g)
    \/ \E g \in Goroutines : Invocations(g)

SpecFake == InitFake /\ [][NextFake]_vars

\* the goroutines whose unlock g is waiting for
WaitsFor(g) ==
    LET pc == fake.pc[g]
        rt == fake.roundTripMutex
        inv == fake.invocationsMutex
    IN  IF pc \in {"RoundTrip", "RoundTripCallCount", "Invocations.RLock"}
        THEN {rt.w} \ {0}
        ELSE IF pc = "RoundTrip.Lock" THEN rt.readers
        ELSE IF pc \in {"recordInvocation", "Invocations"} THEN {inv.w} \ {0}
        ELSE IF pc = "recordInvocation.Lock" THEN inv.readers
        ELSE {}

\* goroutines each of which waits for another of them: none will ever run
BlockedForever ==
    \E B \in SUBSET Goroutines :
        /\ B # {}
        /\ \A g \in B : WaitsFor(g) \cap B # {}

RoundTripsCompleted ==
    Cardinality({g \in Goroutines : fake.pc[g] = "RoundTrip.done"})

RoundTripsInFlight ==
    {g \in Goroutines :
        fake.pc[g] \in {"RoundTrip.Lock", "recordInvocation",
                        "recordInvocation.Lock", "RoundTrip.Unlock"}}

\* with no RoundTrip under way, the args and the invocations recorded are the
\* completed calls, one each
RoundTripCountsAgree ==
    RoundTripsInFlight = {} =>
        /\ fake.roundTripArgsForCall = RoundTripsCompleted
        /\ fake.invocations = RoundTripsCompleted

\* C23: concurrent calls of RoundTrip and Invocations on one fake all
\* complete, no interleaving of roundTripMutex and invocationsMutex leaves a
\* caller blocked forever, and after n completed RoundTrip calls
\* RoundTripCallCount and the recorded "RoundTrip" invocations are n.
C23_AllCallsComplete ==
    /\ ~BlockedForever
    /\ RoundTripCountsAgree

====
